---- MODULE Spec2Model ----
(***************************************************************************)
(* The Wren tokenizer of src/scripts/webpack.js (class Parser) as a state  *)
(* machine.  The source is a JavaScript string: a sequence of one-char     *)
(* strings.  Reading an index outside the string yields `undefined`; the   *)
(* scanner itself only recognises the character '\0' as end of input.      *)
(***************************************************************************)
EXTENDS Integers, Sequences, FiniteSets, TLC

VARIABLES source, tokenStart, currentChar, currentLine, objs, current,
          previous, parens, numParens, tokens, errors, pieces, hung, lastCall

vars == <<source, tokenStart, currentChar, currentLine, objs, current,
          previous, parens, numParens, tokens, errors, pieces, hung, lastCall>>

\* ------------------------------------------------------------------ bounds
\* Longest source drawn from the whole alphabet.
MaxLen == 3
\* Longest source drawn from the string/parenthesis alphabet.
MaxStrLen == 5
\* Deepest interpolation nesting of the generated nested strings.
MaxNest == 9
\* Longest source that follows eight open interpolations.
MaxDeepLen == 3
\* Longest source drawn from the number alphabet.
MaxNumLen == 4
\* How far past the end of the source the cursor is followed.
MaxOverrun == 2

\* --------------------------------------------------------------- constants
MAX_INTERPOLATION_NESTING == 8

\* The character '\0' and the value of an out-of-range index.
NUL == "NUL"
undefined == "undefined"
\* The `start` of a token object that was never assigned one.
NoStart == 0 - 1

Min(a, b) == IF a < b THEN a ELSE b

\* ----------------------------------------------------------- character tests
Letters == {"a", "b", "c", "d", "e", "f", "g", "h", "i", "j", "k", "l", "m",
            "n", "o", "p", "q", "r", "s", "t", "u", "v", "w", "x", "y", "z",
            "A", "B", "C", "D", "E", "F", "G", "H", "I", "J", "K", "L", "M",
            "N", "O", "P", "Q", "R", "S", "T", "U", "V", "W", "X", "Y", "Z"}
Digits == {"0", "1", "2", "3", "4", "5", "6", "7", "8", "9"}

\* undefined compares false with every string.
isName(c) == c \in Letters \/ c = "_"

isDigit(c) == c \in Digits

DigitValue(c) ==
    CASE c = "0" -> 0 [] c = "1" -> 1 [] c = "2" -> 2 [] c = "3" -> 3
      [] c = "4" -> 4 [] c = "5" -> 5 [] c = "6" -> 6 [] c = "7" -> 7
      [] c = "8" -> 8 [] c = "9" -> 9

\* String.prototype.substr(start, length): clipped to the string.
Substr(start, length) ==
    SubSeq(source, start + 1, Min(start + length, Len(source)))

\* ------------------------------------------------------------ scanner state
\* The mutable fields of the Parser while one nextToken() call runs; cur is
\* the object this.current refers to.
This ==
    [tokenStart |-> tokenStart, currentChar |-> currentChar,
     currentLine |-> currentLine, cur |-> objs[current], parens |-> parens,
     numParens |-> numParens, tokens |-> tokens, errors |-> errors,
     pieces |-> pieces, hung |-> FALSE]

NoValue == [kind |-> "undefined", num |-> 0, str |-> ""]
NumValue(n) == [kind |-> "number", num |-> n, str |-> ""]
StrValue(s) == [kind |-> "string", num |-> 0, str |-> s]

CharAt(i) == IF i >= 0 /\ i < Len(source) THEN source[i + 1] ELSE undefined

peekChar(p) == CharAt(p.currentChar)

peekNextChar(p) == CharAt(p.currentChar + 1)

nextChar(p) ==
    [p EXCEPT !.currentChar = @ + 1,
              !.currentLine = IF peekChar(p) = "\n" THEN @ + 1 ELSE @]

matchChar(p, c) == IF peekChar(p) # c THEN p ELSE nextChar(p)

lexError(p, format) ==
    [p EXCEPT !.errors = Append(@, [line |-> p.currentLine, msg |-> format])]

makeToken(p, type) ==
    LET length == p.currentChar - p.tokenStart
        line == IF type = "TOKEN_LINE" THEN p.currentLine - 1
                                        ELSE p.currentLine
        value == Substr(p.tokenStart, length)
    IN [p EXCEPT !.cur = [@ EXCEPT !.type = type, !.start = p.tokenStart,
                                   !.length = length, !.line = line],
                 !.tokens = Append(@, [type |-> type, value |-> value,
                                       line |-> line]),
                 !.pieces = Append(@, [kind |-> "token", text |-> value,
                                       start |-> p.tokenStart,
                                       length |-> length])]

twoCharToken(p, c, two, one) ==
    makeToken(matchChar(p, c), IF peekChar(p) = c THEN two ELSE one)

\* A loop that only ends on a character it will never read again: from the
\* end of the string on every read yields undefined, so the call never
\* returns.
Hang(p) == [p EXCEPT !.hung = TRUE]

\* The span [tokenStart, currentChar) left behind by a `break` of the switch.
Skipped(p) ==
    [p EXCEPT !.pieces =
        Append(@, [kind |-> "skip",
                   text |-> Substr(p.tokenStart,
                                   p.currentChar - p.tokenStart),
                   start |-> p.tokenStart,
                   length |-> p.currentChar - p.tokenStart])]

\* ------------------------------------------------------------------ comments
RECURSIVE skipLineComment(_)
skipLineComment(p) ==
    IF peekChar(p) # "\n" /\ peekChar(p) # NUL
    THEN IF p.currentChar >= Len(source) THEN Hang(p)
         ELSE skipLineComment(nextChar(p))
    ELSE p

RECURSIVE skipBlockCommentLoop(_, _)
skipBlockCommentLoop(p, nesting) ==
    IF nesting > 0
    THEN IF peekChar(p) = NUL
         THEN lexError(p, "Unterminated block comment.")
         ELSE IF p.currentChar >= Len(source) THEN Hang(p)
         ELSE IF peekChar(p) = "/" /\ peekNextChar(p) = "*"
         THEN skipBlockCommentLoop(nextChar(nextChar(p)), nesting + 1)
         ELSE IF peekChar(p) = "*" /\ peekNextChar(p) = "/"
         THEN skipBlockCommentLoop(nextChar(nextChar(p)), nesting - 1)
         ELSE skipBlockCommentLoop(nextChar(p), nesting)
    ELSE p

skipBlockComment(p) == skipBlockCommentLoop(p, 1)

\* ------------------------------------------------------------------- numbers
\* The result of readHexDigit: c - '0' is a number, c - 'a' + 10 and
\* c - 'A' + 10 are NaN.
Digit(n) == [nan |-> FALSE, n |-> n]
NaNDigit == [nan |-> TRUE, n |-> 0]

readHexDigit(p) ==
    LET c == peekChar(p)
        q == nextChar(p)
    IN IF isDigit(c) THEN [p |-> q, digit |-> Digit(DigitValue(c))]
       ELSE IF c \in {"a", "b", "c", "d", "e", "f"}
       THEN [p |-> q, digit |-> NaNDigit]
       ELSE IF c \in {"A", "B", "C", "D", "E", "F"}
       THEN [p |-> q, digit |-> NaNDigit]
       ELSE [p |-> [q EXCEPT !.currentChar = @ - 1], digit |-> Digit(0 - 1)]

\* parseInt(n, 16) of a non-negative integer: its decimal digits read in
\* base 16.
RECURSIVE ParseIntHex(_)
ParseIntHex(n) == IF n < 10 THEN n ELSE (ParseIntHex(n \div 10) * 16) + (n % 10)

makeNumber(p, isHex) ==
    makeToken([p EXCEPT !.cur.value =
                   IF isHex THEN NumValue(ParseIntHex(p.tokenStart))
                            ELSE NumValue(p.tokenStart)],
              "TOKEN_NUMBER")

RECURSIVE readHexDigits(_)
readHexDigits(p) ==
    LET r == readHexDigit(p)
    IN IF r.digit # Digit(0 - 1) THEN readHexDigits(r.p) ELSE r.p

readHexNumber(p) == makeNumber(readHexDigits(nextChar(p)), TRUE)

RECURSIVE skipDigits(_)
skipDigits(p) == IF isDigit(peekChar(p)) THEN skipDigits(nextChar(p)) ELSE p

\* A readNumber that takes a '.' without looking at the character after it.
readNumber_anyDot(p) ==
    LET p1 == skipDigits(p)
        p2 == IF peekChar(p1) = "." THEN skipDigits(nextChar(p1)) ELSE p1
        p3 == IF peekChar(p2) = "e" \/ peekChar(p2) = "E"
              THEN LET a == matchChar(nextChar(p2), "-")
                       b == IF ~isDigit(peekChar(a))
                            THEN lexError(a, "Unterminated scientific notation.")
                            ELSE a
                   IN skipDigits(b)
              ELSE p2
    IN makeNumber(p3, FALSE)

readNumber(p) ==
    LET p1 == skipDigits(p)
        p2 == IF peekChar(p1) = "." /\ isDigit(peekNextChar(p1))
              THEN skipDigits(nextChar(p1)) ELSE p1
        p3 == IF peekChar(p2) = "e" \/ peekChar(p2) = "E"
              THEN LET a == matchChar(nextChar(p2), "-")
                       b == IF ~isDigit(peekChar(a))
                            THEN lexError(a, "Unterminated scientific notation.")
                            ELSE a
                   IN skipDigits(b)
              ELSE p2
    IN makeNumber(p3, FALSE)

\* --------------------------------------------------------------------- names
keywords ==
    << [identifier |-> <<"b","r","e","a","k">>, length |-> 5, tokenType |-> "TOKEN_BREAK"],
       [identifier |-> <<"c","l","a","s","s">>, length |-> 5, tokenType |-> "TOKEN_CLASS"],
       [identifier |-> <<"c","o","n","s","t","r","u","c","t">>, length |-> 9, tokenType |-> "TOKEN_CONSTRUCT"],
       [identifier |-> <<"e","l","s","e">>, length |-> 4, tokenType |-> "TOKEN_ELSE"],
       [identifier |-> <<"f","a","l","s","e">>, length |-> 5, tokenType |-> "TOKEN_FALSE"],
       [identifier |-> <<"f","o","r">>, length |-> 3, tokenType |-> "TOKEN_FOR"],
       [identifier |-> <<"f","o","r","e","i","g","n">>, length |-> 7, tokenType |-> "TOKEN_FOREIGN"],
       [identifier |-> <<"i","f">>, length |-> 2, tokenType |-> "TOKEN_IF"],
       [identifier |-> <<"i","m","p","o","r","t">>, length |-> 6, tokenType |-> "TOKEN_IMPORT"],
       [identifier |-> <<"i","n">>, length |-> 2, tokenType |-> "TOKEN_IN"],
       [identifier |-> <<"i","s">>, length |-> 2, tokenType |-> "TOKEN_IS"],
       [identifier |-> <<"n","u","l","l">>, length |-> 4, tokenType |-> "TOKEN_NULL"],
       [identifier |-> <<"r","e","t","u","r","n">>, length |-> 6, tokenType |-> "TOKEN_RETURN"],
       [identifier |-> <<"s","t","a","t","i","c">>, length |-> 6, tokenType |-> "TOKEN_STATIC"],
       [identifier |-> <<"s","u","p","e","r">>, length |-> 5, tokenType |-> "TOKEN_SUPER"],
       [identifier |-> <<"t","h","i","s">>, length |-> 4, tokenType |-> "TOKEN_THIS"],
       [identifier |-> <<"t","r","u","e">>, length |-> 4, tokenType |-> "TOKEN_TRUE"],
       [identifier |-> <<"v","a","r">>, length |-> 3, tokenType |-> "TOKEN_VAR"],
       [identifier |-> <<"w","h","i","l","e">>, length |-> 5, tokenType |-> "TOKEN_WHILE"],
       \* The sentinel (null, 0, 'TOKEN_EOF'): null equals no string.
       [identifier |-> <<"null">>, length |-> 0, tokenType |-> "TOKEN_EOF"] >>

RECURSIVE skipName(_)
skipName(p) ==
    IF isName(peekChar(p)) \/ isDigit(peekChar(p)) THEN skipName(nextChar(p))
    ELSE p

\* A readName that takes a reserved word at the start of the name for the
\* whole name.
readName_prefix(p, type) ==
    LET q == skipName(p)
        length == q.currentChar - q.tokenStart
        name == Substr(q.tokenStart, length)
        hits == {i \in 1..Len(keywords) :
                    Len(name) >= keywords[i].length
                    /\ SubSeq(name, 1, keywords[i].length) = keywords[i].identifier}
    IN makeToken(q, IF hits = {} THEN type
                    ELSE keywords[CHOOSE i \in hits :
                                     \A j \in hits : i <= j].tokenType)

readName(p, type) ==
    LET q == skipName(p)
        length == q.currentChar - q.tokenStart
        name == Substr(q.tokenStart, length)
        hits == {i \in 1..Len(keywords) :
                    Len(name) = keywords[i].length
                    /\ name = keywords[i].identifier}
    IN makeToken(q, IF hits = {} THEN type
                    ELSE keywords[CHOOSE i \in hits :
                                     \A j \in hits : i <= j].tokenType)

\* ------------------------------------------------------------------- strings
\* (value * 16) | digit, where NaN | 0 is 0.
OrDigit(value, digit) == IF digit.nan THEN value * 16 ELSE (value * 16) + digit.n

RECURSIVE readHexEscapeLoop(_, _, _, _, _)
readHexEscapeLoop(p, i, digits, description, value) ==
    IF i < digits
    THEN IF peekChar(p) = "\"" \/ peekChar(p) = NUL
         THEN [p |-> [lexError(p, "Incomplete " \o description
                                      \o " escape sequence.")
                        EXCEPT !.currentChar = @ - 1],
               value |-> value]
         ELSE LET r == readHexDigit(p)
              IN IF r.digit = Digit(0 - 1)
                 THEN [p |-> lexError(r.p, "Invalid " \o description
                                               \o " escape sequence."),
                       value |-> value]
                 ELSE readHexEscapeLoop(r.p, i + 1, digits, description,
                                        OrDigit(value, r.digit))
    ELSE [p |-> p, value |-> value]

readHexEscape(p, digits, description) ==
    readHexEscapeLoop(p, 0, digits, description, 0)

\* The `if (c == '\\')` block of readString: the switch on the next
\* character.
\* The string "\\v" stands for the vertical tab '\v'.
readEscape(p) ==
    LET e == peekChar(p)
        q == nextChar(p)
    IN CASE e = "t" -> [q EXCEPT !.cur.value = StrValue("\t")]
         [] e = "v" -> [q EXCEPT !.cur.value = StrValue("\\v")]
         [] e = "x" -> LET r == readHexEscape(q, 2, "byte")
                       IN [r.p EXCEPT !.cur.value = NumValue(r.value)]
         [] OTHER -> lexError(q, "Invalid escape character '"
                                 \o ToString(q.currentChar - 1) \o "'.")

\* parens[numParens++] = 1
pushParens(p) ==
    [p EXCEPT !.parens = [i \in (DOMAIN p.parens) \cup {p.numParens} |->
                             IF i = p.numParens THEN 1 ELSE p.parens[i]],
              !.numParens = @ + 1]

\* The guard with <= for <.
canNest_le(p) == p.numParens <= MAX_INTERPOLATION_NESTING

\* The guard of the interpolation branch of readString.
canNest(p) == p.numParens < MAX_INTERPOLATION_NESTING

RECURSIVE readString(_)
readString(p) ==
    IF p.currentChar >= Len(source) THEN Hang(p)
    ELSE
    LET c == peekChar(p)
        q == nextChar(p)
    IN IF c = "\"" THEN makeToken(q, "TOKEN_STRING")
       ELSE IF c = NUL
       THEN makeToken([lexError(q, "Unterminated string.")
                          EXCEPT !.currentChar = @ - 1], "TOKEN_STRING")
       ELSE IF c = "%" /\ canNest(q)
       THEN LET n == nextChar(q)
                m == IF peekChar(q) # "(" THEN lexError(n, "Expect '(' after '%%'.")
                     ELSE n
            IN makeToken(pushParens(m), "TOKEN_INTERPOLATION")
       ELSE LET a == IF c = "%"
                     THEN lexError(q, "Interpolation may only nest "
                                      \o ToString(MAX_INTERPOLATION_NESTING)
                                      \o " levels deep.")
                     ELSE q
                b == IF c = "\\" THEN readEscape(a) ELSE a
            IN readString(b)

\* ------------------------------------------------------------------ nextToken
RECURSIVE skipWhitespace(_)
skipWhitespace(p) ==
    IF peekChar(p) = " " \/ peekChar(p) = "\r" \/ peekChar(p) = "\t"
    THEN skipWhitespace(nextChar(p)) ELSE p

\* Number(c) for the comparison c >= 32 && c <= 126 of a one-character
\* string or undefined: NaN except for a digit or a white-space character.
ToNumber(c) ==
    IF isDigit(c) THEN Digit(DigitValue(c))
    ELSE IF c \in {" ", "\t", "\n", "\r", "\f"} THEN Digit(0)
    ELSE NaNDigit

\* A '(' that is not counted inside an interpolation.
openParen_noCount(p) == makeToken(p, "TOKEN_LEFT_PAREN")

\* A '(' counted in every open interpolation, not only the innermost.
openParen_allCounters(p) ==
    makeToken([p EXCEPT !.parens = [i \in DOMAIN p.parens |->
                                       IF i < p.numParens THEN p.parens[i] + 1
                                       ELSE p.parens[i]]],
              "TOKEN_LEFT_PAREN")

openParen(p) ==
    makeToken(IF p.numParens > 0
              THEN [p EXCEPT !.parens[p.numParens - 1] = @ + 1] ELSE p,
              "TOKEN_LEFT_PAREN")

\* A ')' that ends the interpolation without popping its counter.
closeParen_noPop(p) ==
    IF p.numParens > 0
    THEN LET d == [p EXCEPT !.parens[p.numParens - 1] = @ - 1]
         IN IF d.parens[p.numParens - 1] = 0
            THEN readString(d)
            ELSE makeToken(d, "TOKEN_RIGHT_PAREN")
    ELSE makeToken(p, "TOKEN_RIGHT_PAREN")

\* A ')' that ends the interpolation only when its counter drops below zero.
closeParen_belowZero(p) ==
    IF p.numParens > 0
    THEN LET d == [p EXCEPT !.parens[p.numParens - 1] = @ - 1]
         IN IF d.parens[p.numParens - 1] < 0
            THEN readString([d EXCEPT !.numParens = @ - 1])
            ELSE makeToken(d, "TOKEN_RIGHT_PAREN")
    ELSE makeToken(p, "TOKEN_RIGHT_PAREN")

closeParen(p) ==
    IF p.numParens > 0
    THEN LET d == [p EXCEPT !.parens[p.numParens - 1] = @ - 1]
         IN IF d.parens[p.numParens - 1] = 0
            THEN readString([d EXCEPT !.numParens = @ - 1])
            ELSE makeToken(d, "TOKEN_RIGHT_PAREN")
    ELSE makeToken(p, "TOKEN_RIGHT_PAREN")

errorToken(p, c) ==
    LET n == ToNumber(c)
        q == IF ~n.nan /\ n.n >= 32 /\ n.n <= 126
             THEN lexError(p, "Invalid character '" \o c \o "'.")
             ELSE lexError(p, "Invalid byte 0x" \o c \o ".")
    IN [q EXCEPT !.cur.type = "TOKEN_ERROR", !.cur.length = 0]

SingleCharTokens ==
    [c \in {"[", "]", "{", "}", ":", ",", "*", "%", "^", "+", "-", "~", "?"} |->
        CASE c = "[" -> "TOKEN_LEFT_BRACKET" [] c = "]" -> "TOKEN_RIGHT_BRACKET"
          [] c = "{" -> "TOKEN_LEFT_BRACE" [] c = "}" -> "TOKEN_RIGHT_BRACE"
          [] c = ":" -> "TOKEN_COLON" [] c = "," -> "TOKEN_COMMA"
          [] c = "*" -> "TOKEN_STAR" [] c = "%" -> "TOKEN_PERCENT"
          [] c = "^" -> "TOKEN_CARET" [] c = "+" -> "TOKEN_PLUS"
          [] c = "-" -> "TOKEN_MINUS" [] c = "~" -> "TOKEN_TILDE"
          [] c = "?" -> "TOKEN_QUESTION"]

\* The body of nextToken() after the TOKEN_EOF test: the while loop and the
\* final TOKEN_EOF.  A `break` of the switch is the recursive call.
RECURSIVE scan(_)
scan(p) ==
    IF peekChar(p) = NUL
    THEN makeToken([p EXCEPT !.tokenStart = p.currentChar], "TOKEN_EOF")
    ELSE
    LET p0 == [p EXCEPT !.tokenStart = p.currentChar]
        c == peekChar(p0)
        q == nextChar(p0)
        again(r) == IF r.hung THEN r ELSE scan(Skipped(r))
    IN CASE c = "(" -> openParen(q)
         [] c = ")" -> closeParen(q)
         [] c \in DOMAIN SingleCharTokens -> makeToken(q, SingleCharTokens[c])
         [] c = "|" -> twoCharToken(q, "|", "TOKEN_PIPEPIPE", "TOKEN_PIPE")
         [] c = "&" -> twoCharToken(q, "&", "TOKEN_AMPAMP", "TOKEN_AMP")
         [] c = "=" -> twoCharToken(q, "=", "TOKEN_EQEQ", "TOKEN_EQ")
         [] c = "!" -> twoCharToken(q, "=", "TOKEN_BANGEQ", "TOKEN_BANG")
         [] c = "." ->
              IF peekChar(q) = "."
              THEN twoCharToken(nextChar(q), ".", "TOKEN_DOTDOTDOT",
                                "TOKEN_DOTDOT")
              ELSE makeToken(q, "TOKEN_DOT")
         [] c = "/" ->
              IF peekChar(q) = "/" THEN again(skipLineComment(nextChar(q)))
              ELSE IF peekChar(q) = "*"
              THEN again(skipBlockComment(nextChar(q)))
              ELSE makeToken(q, "TOKEN_SLASH")
         [] c = "<" ->
              IF peekChar(q) = "<" THEN makeToken(nextChar(q), "TOKEN_LTLT")
              ELSE twoCharToken(q, "=", "TOKEN_LTEQ", "TOKEN_LT")
         [] c = ">" ->
              IF peekChar(q) = ">" THEN makeToken(nextChar(q), "TOKEN_GTGT")
              ELSE twoCharToken(q, "=", "TOKEN_GTEQ", "TOKEN_GT")
         [] c = "\n" -> makeToken(q, "TOKEN_LINE")
         [] c \in {" ", "\r", "\t"} -> again(skipWhitespace(q))
         [] c = "\"" -> readString(q)
         [] c = "_" ->
              readName(q, IF peekChar(q) = "_" THEN "TOKEN_STATIC_FIELD"
                                               ELSE "TOKEN_FIELD")
         [] c = "0" ->
              IF peekChar(q) = "x" THEN readHexNumber(q) ELSE readNumber(q)
         [] OTHER ->
              IF q.currentLine = 1 /\ c = "#" /\ peekChar(q) = "!"
              THEN again(skipLineComment(q))
              ELSE IF isName(c) THEN readName(q, "TOKEN_NAME")
              ELSE IF isDigit(c) THEN readNumber(q)
              ELSE errorToken(q, c)

\* The fields of the Parser after the scan that left them as r.
\* this.previous = this.current makes both fields refer to one object, which
\* the scan has updated in place.
Returned(r) ==
    /\ previous' = current
    /\ objs' = [objs EXCEPT ![current] = r.cur]
    /\ tokenStart' = r.tokenStart
    /\ currentChar' = r.currentChar
    /\ currentLine' = r.currentLine
    /\ parens' = r.parens
    /\ numParens' = r.numParens
    /\ tokens' = r.tokens
    /\ errors' = r.errors
    /\ pieces' = r.pieces
    /\ hung' = r.hung
    /\ UNCHANGED <<source, current>>

\* A nextToken() without the early return at TOKEN_EOF.
NextTokenEof_rescan ==
    /\ ~hung
    /\ objs[current].type = "TOKEN_EOF"
    /\ Returned(scan(This))
    /\ lastCall' = "eof"

\* The call of nextToken() that finds current.type == 'TOKEN_EOF': only
\* this.previous = this.current happens.
NextTokenEof ==
    /\ ~hung
    /\ objs[current].type = "TOKEN_EOF"
    /\ previous' = current
    /\ lastCall' = "eof"
    /\ UNCHANGED <<source, tokenStart, currentChar, currentLine, objs, current,
                   parens, numParens, tokens, errors, pieces, hung>>

\* Any other call of nextToken().
NextTokenScan ==
    /\ ~hung
    /\ currentChar <= Len(source) + MaxOverrun
    /\ objs[current].type # "TOKEN_EOF"
    /\ Returned(scan(This))
    /\ lastCall' = "scan"

\* ------------------------------------------------------------------- sources
Alphabet == {"(", ")", "\"", "%", "\\", NUL, "\n", " ", "/", "*", "a", "x",
             "0", "1", "@", "+"}

StrAlphabet == {"\"", "%", "(", ")", "a", NUL}

SeqsUpTo(S, n) == UNION {[1..k -> S] : k \in 0..n}

RECURSIVE Rep(_, _)
Rep(k, s) == IF k = 0 THEN <<>> ELSE s \o Rep(k - 1, s)

\* k nested interpolations, "%("%(" ... a ... )")", and the endings a source
\* may have.
Nested(k) == Rep(k, <<"\"", "%", "(">>) \o <<"a">> \o Rep(k, <<")", "\"">>)

Endings == {<<>>, <<NUL>>, <<"a", NUL>>, <<")", NUL>>, <<"\"">>}

\* "a %(E) b" for expressions E with balanced parentheses.
Exprs == {<<"1", "+", "2">>, <<"1">>, <<"(", "1", ")">>,
          <<"(", "(", "1", ")", "+", "2", ")">>, <<"a", "(", ")">>}

Interpolated(e) ==
    <<"\"", "a", " ", "%", "(">> \o e \o <<")", " ", "b", "\"">>

\* Short sources read at the deepest nesting the scanner allows.
Deep(t) == Rep(MAX_INTERPOLATION_NESTING, <<"\"", "%", "(">>) \o t

\* A string with two interpolations side by side.
Twice == <<"\"", "%", "(", "a", ")", "%", "(", "a", ")", "\"">>

NumAlphabet == {"1", ".", "e", "E", "-", "a", NUL}

\* Number literals and method calls on them, at offset 0 and further on.
NumberExamples ==
    {pre \o n \o t :
        pre \in {<<>>, <<" ">>, <<"a", " ">>},
        n \in {<<"1", ".", "t", "o", "S", "t", "r", "i", "n", "g">>,
               <<"0", "x", "1", "A">>, <<"0", "x", "f", "f">>, <<"0", "x">>,
               <<"1", "2">>, <<"7">>, <<"3", ".", "1", "4">>,
               <<"2", "e", "-", "3">>, <<"2", "e">>, <<"2", "E", "-">>,
               <<"0", ".", "5">>, <<"0", "x", "1", "\n", "2">>},
        t \in {<<>>, <<NUL>>, <<"\n", NUL>>}}

\* The reserved words and names around them.
Words ==
    {keywords[i].identifier : i \in 1..(Len(keywords) - 1)}
    \cup {<<>>, <<"x">>, <<"F", "o", "r">>, <<"f", "o">>, <<"n", "u", "l">>}

NameSources ==
    {pre \o w \o suf \o t :
        pre \in {<<>>, <<"_">>, <<"_", "_">>},
        w \in Words,
        suf \in {<<>>, <<"e", "a", "c", "h">>, <<"1">>, <<"_">>},
        t \in {<<>>, <<NUL>>, <<" ", "a", NUL>>}}

\* Characters that start no token, alone and between other characters.
ErrorChars == {"@", "$", "#", ";", "\\", "\f"}

ErrorSources ==
    {pre \o <<c>> \o t :
        pre \in {<<>>, <<"a">>, <<" ">>},
        c \in ErrorChars,
        t \in {<<>>, <<NUL>>, <<"a", NUL>>}}

\* String literals that the end of input cuts short.
UntermBodies ==
    {<<"a", "b", "c">>, <<>>, <<"a", "\\">>, <<"a", "%">>, <<"a", "\\", "x">>,
     <<"a", "\\", "x", "1">>, <<"a", "\\", "t">>}

Unterminated(b) == <<"\"">> \o b \o <<NUL>>

UntermSources ==
    {pre \o Unterminated(b) : pre \in {<<>>, <<"a", " ">>}, b \in UntermBodies}

\* Block comments, nested and cut short by the end of input.
BlockBodies ==
    {<<"/", "*", "*", "/">>,
     <<"/", "*", "a", "*", "/">>,
     <<"/", "*", "\n", "*", "/">>,
     <<"/", "*", "/", "*", "*", "/", "*", "/">>,
     <<"/", "*", "a", "/", "*", "b", "*", "/", "c", "*", "/">>,
     <<"/", "*", "/", "*", "/", "*", "*", "/", "*", "/", "*", "/">>,
     <<"/", "*", "/", "*", "a", "*", "/">>,
     <<"/", "*", "a">>,
     <<"/", "*", "/">>,
     <<"/", "*", "/", "*">>}

BlockSources ==
    {pre \o b \o t :
        pre \in {<<>>, <<"a", " ">>},
        b \in BlockBodies,
        t \in {<<>>, <<NUL>>, <<"x", NUL>>, <<"*", "/", "x", NUL>>}}

\* A "#!" at the start of the source and elsewhere.
ShebangSources ==
    {pre \o <<"#", "!">> \o b \o t :
        pre \in {<<>>, <<"\n">>, <<"a", " ">>, <<"\n", "a", " ">>,
                 <<"\n", "\n">>},
        b \in {<<>>, <<"a">>, <<"@", " ", "a">>},
        t \in {<<>>, <<NUL>>, <<"\n", "a", NUL>>}}

Sources ==
    SeqsUpTo(Alphabet, MaxLen) \cup SeqsUpTo(StrAlphabet, MaxStrLen)
    \cup SeqsUpTo(NumAlphabet, MaxNumLen)
    \cup NumberExamples \cup NameSources \cup ErrorSources
    \cup UntermSources \cup ShebangSources \cup BlockSources
    \cup {Twice \o t : t \in Endings}
    \cup {Deep(t) : t \in SeqsUpTo(StrAlphabet, MaxDeepLen)}
    \cup {Nested(k) \o t : k \in 0..MaxNest, t \in Endings}
    \cup {Interpolated(e) \o t : e \in Exprs, t \in Endings}

\* ----------------------------------------------------------------------- spec
\* The fields set by the constructor before its loop of 85 nextToken() calls
\* (lines 159-161); those calls are the first NextTokenScan and NextTokenEof
\* steps, and later steps are calls made on the constructed Parser.
NewToken == [type |-> undefined, start |-> NoStart, length |-> 0, line |-> 0,
             value |-> NoValue]

Init ==
    /\ source \in Sources
    /\ tokenStart = 0
    /\ currentChar = 0
    /\ currentLine = 0
    /\ objs = [o \in {1, 2} |-> NewToken]
    /\ current = 1
    /\ previous = 2
    /\ parens = [i \in {} |-> 0]
    /\ numParens = 0
    /\ tokens = <<>>
    /\ errors = <<>>
    /\ pieces = <<>>
    /\ hung = FALSE
    /\ lastCall = "none"

Next == NextTokenScan \/ NextTokenEof

Spec == Init /\ [][Next]_vars

Cur == objs[current]
Prev == objs[previous]

\* The character the last scanned token starts with.
StartChar == CharAt(tokenStart)

\* ---------------------------------------------------------------------- C1
\* C1: every nextToken() call returns, and a call that finds no byte of the
\* source left to scan makes current a TOKEN_EOF token (so a finite source
\* ends in TOKEN_EOF, also inside a comment or a string).
C1_ScanEndsWithEof ==
    /\ ~hung
    /\ (lastCall # "none" /\ tokenStart >= Len(source))
           => Cur.type = "TOKEN_EOF"

\* ---------------------------------------------------------------------- C2
\* C2: once current is TOKEN_EOF a nextToken() call changes nothing but
\* previous, which refers to the TOKEN_EOF token afterwards.
C2_EofTailIsIdle ==
    [][Cur.type = "TOKEN_EOF" =>
          /\ UNCHANGED <<currentChar, tokenStart, currentLine, parens,
                         numParens, tokens, current>>
          /\ objs'[current'] = objs[current]
          /\ objs'[previous'].type = "TOKEN_EOF"]_vars

C2_Witness == Cur.type = "TOKEN_EOF" /\ lastCall = "eof" /\ Len(tokens) > 1

\* ---------------------------------------------------------------------- C3
\* C3: after a nextToken() call that scans a token, previous has the type,
\* start, length and line current had before the call.
C3_PreviousKeepsOldToken ==
    [][(Cur.type # "TOKEN_EOF" /\ ~hung') =>
          /\ objs'[previous'].type = Cur.type
          /\ objs'[previous'].start = Cur.start
          /\ objs'[previous'].length = Cur.length
          /\ objs'[previous'].line = Cur.line]_vars

\* ---------------------------------------------------------------------- C4
\* C4: a nextToken() call made before TOKEN_EOF that scans a byte of the
\* source appends exactly one token to tokens, of the type current has after
\* the call.
C4_OneTokenPerCall ==
    [][(Cur.type # "TOKEN_EOF" /\ ~hung' /\ tokenStart' < Len(source)) =>
          /\ Len(tokens') = Len(tokens) + 1
          /\ tokens'[Len(tokens')].type = objs'[current'].type]_vars

\* ---------------------------------------------------------------------- C5
\* The last call returned a token that starts with the character c.
Scanned(c) == lastCall = "scan" /\ ~hung /\ StartChar = c

\* The top counter is 1: the next ')' ends the interpolation.
ClosesInterpolation == numParens > 0 /\ parens[numParens - 1] = 1

\* C5 as claimed: a ')' that brings the top counter to zero lowers the depth
\* by one and produces TOKEN_STRING or TOKEN_INTERPOLATION; any other ')'
\* produces TOKEN_RIGHT_PAREN and keeps the depth.
C5_DepthDropsByOne ==
    [][(Cur.type # "TOKEN_EOF" /\ Scanned(")")') =>
          IF ClosesInterpolation
          THEN /\ numParens' = numParens - 1
               /\ objs'[current'].type \in {"TOKEN_STRING", "TOKEN_INTERPOLATION"}
          ELSE /\ objs'[current'].type = "TOKEN_RIGHT_PAREN"
               /\ numParens' = numParens]_vars

\* C5 amended: the counter is popped and the resumed string scan produces
\* TOKEN_STRING, leaving the depth one lower, or TOKEN_INTERPOLATION, whose
\* '%' pushes a new counter 1 so that the depth is the one before the call;
\* any other ')' produces TOKEN_RIGHT_PAREN and keeps the depth.
C5_CloseParen ==
    [][(Cur.type # "TOKEN_EOF" /\ Scanned(")")') =>
          IF ClosesInterpolation
          THEN \/ /\ objs'[current'].type = "TOKEN_STRING"
                  /\ numParens' = numParens - 1
               \/ /\ objs'[current'].type = "TOKEN_INTERPOLATION"
                  /\ numParens' = numParens
                  /\ parens'[numParens' - 1] = 1
          ELSE /\ objs'[current'].type = "TOKEN_RIGHT_PAREN"
               /\ numParens' = numParens]_vars

C5_Witness ==
    /\ source = Twice \o <<NUL>>
    /\ Scanned(")")
    /\ Cur.type = "TOKEN_INTERPOLATION"
    /\ numParens = 1
    /\ errors = <<>>

\* ---------------------------------------------------------------------- C6
\* The message the claim quotes, with the final period of the code's messages.
ExpectParenClaimed == "Expect '(' after '%'."

\* The depth at which the string body of the last call was entered.
EntryDepth == IF StartChar' = ")" THEN numParens - 1 ELSE numParens

\* C6: a TOKEN_INTERPOLATION token ends at a '%' and the character after it,
\* reports "Expect '(' after '%'" exactly when that character is not '(',
\* and pushes one counter 1; the depth grows in no other way.
C6_PercentPushes ==
    [][(Cur.type # "TOKEN_EOF" /\ ~hung') =>
          /\ objs'[current'].type = "TOKEN_INTERPOLATION" =>
               /\ EntryDepth < MAX_INTERPOLATION_NESTING
               /\ numParens' = EntryDepth + 1
               /\ parens'[numParens' - 1] = 1
               /\ CharAt(currentChar' - 2) = "%"
               /\ IF CharAt(currentChar' - 1) # "("
                  THEN /\ Len(errors') > Len(errors)
                       /\ errors'[Len(errors')].msg = ExpectParenClaimed
                  ELSE \A i \in (Len(errors) + 1)..Len(errors') :
                          errors'[i].msg # ExpectParenClaimed
          /\ numParens' > numParens =>
               /\ objs'[current'].type = "TOKEN_INTERPOLATION"
               /\ numParens' = numParens + 1]_vars

\* ---------------------------------------------------------------------- C7
NestMessage == "Interpolation may only nest 8 levels deep."

RECURSIVE NestErrors(_)
NestErrors(errs) ==
    IF errs = <<>> THEN 0
    ELSE NestErrors(Tail(errs)) + (IF Head(errs).msg = NestMessage THEN 1 ELSE 0)

\* The '%' characters a string body holds outside its escapes.
RECURSIVE PercentsMet(_)
PercentsMet(body) ==
    IF body = <<>> THEN 0
    ELSE IF Head(body) = "\\"
    THEN IF Len(body) < 2 THEN 0 ELSE PercentsMet(Tail(Tail(body)))
    ELSE PercentsMet(Tail(body)) + (IF Head(body) = "%" THEN 1 ELSE 0)

\* C7: the depth never exceeds 8; a string scanned at depth 8 reports one
\* nesting error per '%' it meets, pushes nothing and stays a TOKEN_STRING;
\* nine nested interpolations report one nesting error, with the ninth string.
C7_NestingLimit ==
    /\ [](numParens <= MAX_INTERPOLATION_NESTING)
    /\ [](\A t \in Endings : source = Nested(9) \o t =>
             NestErrors(errors) = IF Len(tokens) >= 9 THEN 1 ELSE 0)
    /\ [][(Cur.type # "TOKEN_EOF" /\ Scanned("\"")'
           /\ numParens = MAX_INTERPOLATION_NESTING) =>
             /\ objs'[current'].type = "TOKEN_STRING"
             /\ numParens' = numParens
             /\ parens' = parens
             /\ NestErrors(errors') - NestErrors(errors) =
                   PercentsMet(SubSeq(source, tokenStart' + 2, currentChar'))]_vars

C7_Witness ==
    /\ source = Nested(9) \o <<NUL>>
    /\ Cur.type = "TOKEN_EOF"
    /\ NestErrors(errors) = 1
    /\ Len(errors) = 1
    /\ numParens = 0

\* ---------------------------------------------------------------------- C8
\* The token types of the expressions of Exprs.
ExprTypes(e) ==
    CASE e = <<"1", "+", "2">> ->
            <<"TOKEN_NUMBER", "TOKEN_PLUS", "TOKEN_NUMBER">>
      [] e = <<"1">> -> <<"TOKEN_NUMBER">>
      [] e = <<"(", "1", ")">> ->
            <<"TOKEN_LEFT_PAREN", "TOKEN_NUMBER", "TOKEN_RIGHT_PAREN">>
      [] e = <<"(", "(", "1", ")", "+", "2", ")">> ->
            <<"TOKEN_LEFT_PAREN", "TOKEN_LEFT_PAREN", "TOKEN_NUMBER",
              "TOKEN_RIGHT_PAREN", "TOKEN_PLUS", "TOKEN_NUMBER",
              "TOKEN_RIGHT_PAREN">>
      [] e = <<"a", "(", ")">> ->
            <<"TOKEN_NAME", "TOKEN_LEFT_PAREN", "TOKEN_RIGHT_PAREN">>

\* C8: "a %(E) b" scanned at depth zero gives TOKEN_INTERPOLATION for "a %(",
\* the tokens of E, then TOKEN_STRING for ) b", with no TOKEN_RIGHT_PAREN for
\* the closing ')' and depth zero after the TOKEN_STRING.
C8_InterpolationBalance ==
    \A e \in Exprs, t \in Endings :
        source = Interpolated(e) \o t =>
            LET expected == <<"TOKEN_INTERPOLATION">> \o ExprTypes(e)
                                \o <<"TOKEN_STRING">>
                n == Len(tokens)
                m == Len(expected)
            IN /\ \A i \in 1..Min(n, m) : tokens[i].type = expected[i]
               /\ n >= 1 => tokens[1].value = <<"\"", "a", " ", "%", "(">>
               /\ n >= m => tokens[m].value = <<")", " ", "b", "\"">>
               /\ (n >= 1 /\ n < m) => numParens = 1
               /\ n = m => numParens = 0

C8_Witness ==
    /\ source = Interpolated(<<"1", "+", "2">>) \o <<NUL>>
    /\ Len(tokens) = 5
    /\ Cur.type = "TOKEN_STRING"
    /\ numParens = 0

\* ---------------------------------------------------------------------- C9
RECURSIVE Concat(_)
Concat(ps) == IF ps = <<>> THEN <<>> ELSE Head(ps).text \o Concat(Tail(ps))

\* C9: the lexemes of the produced tokens and the skipped spans, in order,
\* are the consumed part of the source.
C9_Coverage ==
    ~hung => Concat(pieces) = SubSeq(source, 1, Min(currentChar, Len(source)))

\* --------------------------------------------------------------------- C10
\* The number of '\n' among the first n characters of the source.
RECURSIVE Newlines(_)
Newlines(n) ==
    IF n <= 0 THEN 0
    ELSE Newlines(n - 1) + (IF CharAt(n - 1) = "\n" THEN 1 ELSE 0)

\* C10: the TOKEN_LINE of the k-th '\n' reports line k, and a token on one
\* line that starts right after that '\n' reports line k + 1.
C10_LineOfNewline ==
    /\ Scanned("\n") => Cur.line = Newlines(Cur.start + 1)
    /\ (lastCall = "scan" /\ ~hung /\ Cur.type \notin {"TOKEN_ERROR", "TOKEN_LINE"}
        /\ Cur.start = tokenStart /\ CharAt(Cur.start - 1) = "\n"
        /\ Newlines(currentChar) = Newlines(Cur.start))
           => Cur.line = Newlines(Cur.start) + 1

\* --------------------------------------------------------------------- C11
\* The lexeme of the token the last call scanned.
Lexeme == SubSeq(source, tokenStart + 1, Min(currentChar, Len(source)))

\* The last call returned a token that starts a decimal number literal.
ScannedDecimal ==
    /\ lastCall = "scan" /\ ~hung
    /\ isDigit(StartChar)
    /\ ~(StartChar = "0" /\ CharAt(tokenStart + 1) = "x")

MethodCall == <<"1", ".", "t", "o", "S", "t", "r", "i", "n", "g">>

\* C11: a decimal literal takes a '.' only between two digits, so that
\* 1.toString is TOKEN_NUMBER 1, TOKEN_DOT, TOKEN_NAME; an exponent marker
\* without digits reports one error and the token is still TOKEN_NUMBER.
C11_DecimalNumber ==
    /\ [](\A t \in {<<>>, <<NUL>>, <<"\n", NUL>>} :
             source = MethodCall \o t =>
                /\ Len(tokens) >= 1 =>
                     tokens[1] = [type |-> "TOKEN_NUMBER", value |-> <<"1">>,
                                  line |-> 0]
                /\ Len(tokens) >= 2 => tokens[2].type = "TOKEN_DOT"
                /\ Len(tokens) >= 3 =>
                     /\ tokens[3].type = "TOKEN_NAME"
                     /\ tokens[3].value = SubSeq(MethodCall, 3, 10))
    /\ [][ScannedDecimal' =>
             LET lex == Lexeme'
                 new == SubSeq(errors', Len(errors) + 1, Len(errors'))
             IN /\ objs'[current'].type = "TOKEN_NUMBER"
                /\ objs'[current'].length = Len(lex)
                /\ \A i \in 1..Len(lex) :
                      lex[i] = "." =>
                         /\ i > 1 /\ isDigit(lex[i - 1])
                         /\ i < Len(lex) /\ isDigit(lex[i + 1])
                /\ (CharAt(currentChar') = "." /\ isDigit(CharAt(currentChar' + 1)))
                      => \E i \in 1..Len(lex) : lex[i] \in {".", "e", "E"}
                /\ IF lex[Len(lex)] \in {"e", "E", "-"}
                   THEN /\ Len(new) = 1
                        /\ new[1].msg = "Unterminated scientific notation."
                   ELSE new = <<>>]_vars

C11_Witness ==
    /\ source = MethodCall \o <<NUL>>
    /\ Len(tokens) = 3
    /\ Cur.type = "TOKEN_NAME"
    /\ errors = <<>>

\* --------------------------------------------------------------------- C12
HexDigits == Digits \cup {"a", "b", "c", "d", "e", "f", "A", "B", "C", "D", "E", "F"}

HexValue(c) ==
    IF isDigit(c) THEN DigitValue(c)
    ELSE CASE c \in {"a", "A"} -> 10 [] c \in {"b", "B"} -> 11
           [] c \in {"c", "C"} -> 12 [] c \in {"d", "D"} -> 13
           [] c \in {"e", "E"} -> 14 [] c \in {"f", "F"} -> 15

\* The number a sequence of digits denotes in the given base.
RECURSIVE Numeral(_, _)
Numeral(ds, base) ==
    IF ds = <<>> THEN 0
    ELSE (Numeral(SubSeq(ds, 1, Len(ds) - 1), base) * base) + HexValue(ds[Len(ds)])

\* C12: the value of a TOKEN_NUMBER token is the number its lexeme denotes:
\* 0x1A gives 26 and a decimal integer lexeme gives that integer.
C12_ValueOfLexeme ==
    (lastCall = "scan" /\ ~hung /\ Cur.type = "TOKEN_NUMBER"
     /\ Cur.start = tokenStart) =>
        /\ (\A i \in 1..Len(Lexeme) : isDigit(Lexeme[i]))
              => Cur.value = NumValue(Numeral(Lexeme, 10))
        /\ (/\ Len(Lexeme) > 2 /\ Lexeme[1] = "0" /\ Lexeme[2] = "x"
            /\ \A i \in 3..Len(Lexeme) : Lexeme[i] \in HexDigits)
              => Cur.value = NumValue(Numeral(SubSeq(Lexeme, 3, Len(Lexeme)), 16))

\* --------------------------------------------------------------------- C13
\* The 19 reserved words and their token kinds.
Reserved ==
    {[word |-> <<"b", "r", "e", "a", "k">>, type |-> "TOKEN_BREAK"],
     [word |-> <<"c", "l", "a", "s", "s">>, type |-> "TOKEN_CLASS"],
     [word |-> <<"c", "o", "n", "s", "t", "r", "u", "c", "t">>, type |-> "TOKEN_CONSTRUCT"],
     [word |-> <<"e", "l", "s", "e">>, type |-> "TOKEN_ELSE"],
     [word |-> <<"f", "a", "l", "s", "e">>, type |-> "TOKEN_FALSE"],
     [word |-> <<"f", "o", "r">>, type |-> "TOKEN_FOR"],
     [word |-> <<"f", "o", "r", "e", "i", "g", "n">>, type |-> "TOKEN_FOREIGN"],
     [word |-> <<"i", "f">>, type |-> "TOKEN_IF"],
     [word |-> <<"i", "m", "p", "o", "r", "t">>, type |-> "TOKEN_IMPORT"],
     [word |-> <<"i", "n">>, type |-> "TOKEN_IN"],
     [word |-> <<"i", "s">>, type |-> "TOKEN_IS"],
     [word |-> <<"n", "u", "l", "l">>, type |-> "TOKEN_NULL"],
     [word |-> <<"r", "e", "t", "u", "r", "n">>, type |-> "TOKEN_RETURN"],
     [word |-> <<"s", "t", "a", "t", "i", "c">>, type |-> "TOKEN_STATIC"],
     [word |-> <<"s", "u", "p", "e", "r">>, type |-> "TOKEN_SUPER"],
     [word |-> <<"t", "h", "i", "s">>, type |-> "TOKEN_THIS"],
     [word |-> <<"t", "r", "u", "e">>, type |-> "TOKEN_TRUE"],
     [word |-> <<"v", "a", "r">>, type |-> "TOKEN_VAR"],
     [word |-> <<"w", "h", "i", "l", "e">>, type |-> "TOKEN_WHILE"]}

\* The kind a name has before the reserved words are looked up.
PreClass(lex) ==
    IF lex[1] # "_" THEN "TOKEN_NAME"
    ELSE IF Len(lex) >= 2 /\ lex[2] = "_" THEN "TOKEN_STATIC_FIELD"
    ELSE "TOKEN_FIELD"

\* The last call returned a token that starts with a letter or '_'.
ScannedName == lastCall = "scan" /\ ~hung /\ isName(StartChar)

\* C13: a name is the longest run of letters, digits and '_'; it gets a
\* keyword kind exactly when its whole text is one of the 19 reserved words,
\* and is TOKEN_NAME, TOKEN_FIELD ('_') or TOKEN_STATIC_FIELD ('__') otherwise.
C13_KeywordOrName ==
    [][ScannedName' =>
          LET lex == Lexeme'
              hit == {r \in Reserved : r.word = lex}
          IN /\ Cardinality(Reserved) = 19
             /\ \A i \in 1..Len(lex) : isName(lex[i]) \/ isDigit(lex[i])
             /\ ~(isName(CharAt(currentChar')) \/ isDigit(CharAt(currentChar')))
             /\ objs'[current'].length = Len(lex)
             /\ objs'[current'].type =
                   IF hit # {} THEN (CHOOSE r \in hit : TRUE).type
                   ELSE PreClass(lex)]_vars

C13_Witness ==
    /\ source = <<"f", "o", "r", " ", "a", NUL>>
    /\ Len(tokens) = 2
    /\ tokens[1].type = "TOKEN_FOR"
    /\ Cur.type = "TOKEN_NAME"

\* --------------------------------------------------------------------- C14
\* Printable ASCII characters (codes 32 to 126) that start no token, and one
\* that is not printable (the form feed, code 12).
PrintableOffenders == {"@", "$", ";", "\\"}
OtherOffenders == {"\f"}

\* C14: a byte that starts no token makes current a zero-length TOKEN_ERROR
\* and reports one error, "Invalid character" for printable ASCII and
\* "Invalid byte" otherwise; the cursor is then on the next byte.
C14_InvalidCharacter ==
    [][(lastCall' = "scan" /\ ~hung'
        /\ StartChar' \in PrintableOffenders \cup OtherOffenders) =>
          LET c == StartChar'
              new == SubSeq(errors', Len(errors) + 1, Len(errors'))
          IN /\ objs'[current'].type = "TOKEN_ERROR"
             /\ objs'[current'].length = 0
             /\ currentChar' = tokenStart' + 1
             /\ Len(new) = 1
             /\ new[1].msg = IF c \in PrintableOffenders
                             THEN "Invalid character '" \o c \o "'."
                             ELSE "Invalid byte 0x" \o c \o "."]_vars

\* --------------------------------------------------------------------- C15
RECURSIVE CountMsg(_, _)
CountMsg(errs, msg) ==
    IF errs = <<>> THEN 0
    ELSE CountMsg(Tail(errs), msg) + (IF Head(errs).msg = msg THEN 1 ELSE 0)

\* C15: a string literal cut short by the end of input reports "Unterminated
\* string." once (and nothing else for "abc), produces TOKEN_STRING and
\* leaves the cursor on the end of input, also after a backslash, a '%' or
\* an incomplete \x escape.
C15_UnterminatedString ==
    \A b \in UntermBodies :
        source = Unterminated(b) =>
            /\ ~hung
            /\ currentChar <= Len(source) - 1
            /\ lastCall # "none" =>
                 /\ tokens[1].type = "TOKEN_STRING"
                 /\ currentChar = Len(source) - 1
                 /\ CountMsg(errors, "Unterminated string.") = 1
                 /\ b = <<"a", "b", "c">> => Len(errors) = 1

\* --------------------------------------------------------------------- C16
\* C16: a call that scans '(' produces TOKEN_LEFT_PAREN and keeps the depth
\* of the interpolation stack; inside an interpolation it adds one to the
\* top counter and leaves the counters below it alone, outside it leaves the
\* stack alone.
C16_LeftParen ==
    [][Scanned("(")' =>
          /\ objs'[current'].type = "TOKEN_LEFT_PAREN"
          /\ objs'[current'].length = 1
          /\ numParens' = numParens
          /\ IF numParens > 0
             THEN /\ parens'[numParens - 1] = parens[numParens - 1] + 1
                  /\ \A i \in 0..(numParens - 2) : parens'[i] = parens[i]
             ELSE parens' = parens]_vars

C16_Witness ==
    /\ source = Interpolated(<<"(", "1", ")">>) \o <<NUL>>
    /\ Scanned("(")
    /\ Cur.type = "TOKEN_LEFT_PAREN"
    /\ numParens = 1
    /\ parens[0] = 2
    /\ errors = <<>>

\* --------------------------------------------------------------------- C17
Terminated == source # <<>> /\ source[Len(source)] = NUL

\* C17: in every state tokenStart <= currentChar <= length of the source;
\* no scanning path moves the cursor past the end of the input (checked for
\* the sources that end with the end-of-input character).
C17_CursorInsideSource ==
    Terminated =>
        /\ tokenStart <= currentChar
        /\ currentChar <= Len(source)

\* --------------------------------------------------------------------- C18
\* C18: currentLine never decreases and is ahead of its initial value by the
\* number of newlines of the source before the cursor, also when a hex-digit
\* reader looks at a newline and puts it back.
C18_LineCountsNewlines ==
    /\ [](~hung => currentLine = Newlines(Min(currentChar, Len(source))))
    /\ [][currentLine' >= currentLine]_vars

\* --------------------------------------------------------------------- C19
\* The ranges of the tokens makeToken produced, in the order of production.
Produced == SelectSeq(pieces, LAMBDA x : x.kind = "token")

\* C19: the produced tokens start at non-decreasing offsets, and the range
\* [start, start + length) of each lies inside the source and overlaps the
\* range of no other produced token.
C19_TokenRanges ==
    /\ \A i \in DOMAIN Produced :
          /\ 0 <= Produced[i].start
          /\ 0 <= Produced[i].length
          /\ Produced[i].start + Produced[i].length <= Len(source)
    /\ \A i, j \in DOMAIN Produced :
          i < j => /\ Produced[i].start <= Produced[j].start
                   /\ Produced[i].start + Produced[i].length <= Produced[j].start

\* --------------------------------------------------------------------- C20
\* The offset of the first '\n' or end-of-input character at or behind n.
RECURSIVE LineEnd(_)
LineEnd(n) ==
    IF n >= Len(source) \/ CharAt(n) \in {"\n", NUL} THEN n ELSE LineEnd(n + 1)

StartsWithShebang ==
    Len(source) >= 2 /\ source[1] = "#" /\ source[2] = "!"

\* C20: a "#!" at offset 0 is skipped up to the end of its line, without a
\* token and without an error for that line; a '#' at any other offset does
\* not start a skipped span.
C20_Shebang ==
    Terminated =>
        /\ (StartsWithShebang /\ lastCall # "none") =>
              /\ \A i \in DOMAIN errors : errors[i].line > 0
              /\ Cur.type # "TOKEN_ERROR"
              /\ \A i \in DOMAIN Produced : Produced[i].start >= LineEnd(0)
        /\ \A i \in DOMAIN pieces :
              (pieces[i].kind = "skip" /\ pieces[i].length > 0
               /\ pieces[i].text[1] = "#") => pieces[i].start = 0

\* --------------------------------------------------------------------- C21
\* The offset right behind the "*/" that closes the block comment whose body
\* is read from offset n at nesting depth d, or NoStart when the end of the
\* input comes first.
RECURSIVE CommentEnd(_, _)
CommentEnd(n, d) ==
    IF d = 0 THEN n
    ELSE IF n >= Len(source) \/ CharAt(n) = NUL THEN NoStart
    ELSE IF CharAt(n) = "/" /\ CharAt(n + 1) = "*" THEN CommentEnd(n + 2, d + 1)
    ELSE IF CharAt(n) = "*" /\ CharAt(n + 1) = "/" THEN CommentEnd(n + 2, d - 1)
    ELSE CommentEnd(n + 1, d)

\* The offset of the end of the input: the first '\0', or the length.
RECURSIVE InputEnd(_)
InputEnd(n) ==
    IF n >= Len(source) \/ CharAt(n) = NUL THEN n ELSE InputEnd(n + 1)

OpensComment(n) == CharAt(n) = "/" /\ CharAt(n + 1) = "*"

\* The call that reads the "/*" at offset n, behind nothing or behind "a ",
\* has taken place.
CommentScanned(n) ==
    /\ n \in {0, 2}
    /\ n = 2 => (CharAt(0) = "a" /\ CharAt(1) = " ")
    /\ OpensComment(n)
    /\ currentChar > n

BlockMessage == "Unterminated block comment."

\* C21: the scan resumes right behind the "*/" that matches the "/*", at any
\* nesting depth, and no token lies in the comment; a comment still open at
\* the end of the input reports "Unterminated block comment." once and the
\* call ends with TOKEN_EOF at the end of the input.
C21_BlockComment ==
    \A n \in {0, 2} :
        CommentScanned(n) =>
            /\ ~hung
            /\ \A i \in DOMAIN Produced :
                  \/ Produced[i].start + Produced[i].length <= n
                  \/ Produced[i].start >=
                        (IF CommentEnd(n + 2, 1) = NoStart
                         THEN InputEnd(n) ELSE CommentEnd(n + 2, 1))
            /\ \E i \in DOMAIN pieces :
                  /\ pieces[i].kind = "skip"
                  /\ pieces[i].start = n
                  /\ pieces[i].start + pieces[i].length =
                        (IF CommentEnd(n + 2, 1) = NoStart
                         THEN InputEnd(n) ELSE CommentEnd(n + 2, 1))
            /\ IF CommentEnd(n + 2, 1) = NoStart
               THEN /\ CountMsg(errors, BlockMessage) = 1
                    /\ Cur.type = "TOKEN_EOF"
                    /\ currentChar = InputEnd(n)
               ELSE CountMsg(errors, BlockMessage) = 0

\* --------------------------------------------------------------------- C22
\* C22: between nextToken() calls every counter of the active part of the
\* interpolation stack, parens[0 .. numParens - 1], is at least 1.
C22_ActiveCountersPositive ==
    \A i \in 0..(numParens - 1) : i \in DOMAIN parens /\ parens[i] >= 1

\* The inner of two nested interpolations has just been closed by its ')'.
C22_Witness ==
    /\ source = Nested(2) \o <<NUL>>
    /\ Scanned(")")
    /\ Cur.type = "TOKEN_STRING"
    /\ numParens = 1
    /\ parens[0] = 1
    /\ 1 \in DOMAIN parens /\ parens[1] = 0
====
